---- MODULE Spec2Model ----
(***************************************************************************)
(* Model of the change-propagation pipeline of Amadeus Pocket:             *)
(* GitHubWorkflow.execute and the helpers it calls                         *)
(* (src/src/amadeus/github/workflow.py), together with the outcomes of the *)
(* GitHubClient calls it awaits (src/src/amadeus/github/client.py).        *)
(*                                                                         *)
(* Text is modelled as a sequence of tokens.  A token is the smallest      *)
(* piece of the model's answer the streamed fragments can be cut at:       *)
(*   "FENCE"          a line holding a markdown code fence                 *)
(*   "{" "}" "[" "]"  JSON punctuation (commas are left implicit)          *)
(*   "K"              the member key  "path":                              *)
(*   "Va" "Vb"        the JSON strings "a" and "b" (file paths a and b)    *)
(*   "C"              the member  "content": "..."                         *)
(*   "Ac" "Au" "Ad"   the member  "action": "create"|"update"|"delete"     *)
(*   "S"              the member  "summary": "..."                         *)
(*   "N"              the member  "next_steps": [...]  (non-empty list)    *)
(*   "F"              the member key  "files":                             *)
(*   "0"              a JSON scalar                                        *)
(*                                                                         *)
(* _call_anthropic_streaming and _call_openai_streaming run the same loop  *)
(* (lines 438-475 and 530-566); they differ in the shape of the SSE event  *)
(* a text delta is read from, so one set of stream actions models both.    *)
(* Lines that carry no text (other event types, undecodable data, a delta  *)
(* with empty text) change no state and have no action.  Both callbacks,   *)
(* on_progress and on_stream, are supplied, as the caller does             *)
(* (cli/multiuser.py, handle_github_workflow).                             *)
(***************************************************************************)
EXTENDS Integers, Sequences, FiniteSets, TLC

\* Optional values: Python's None and a present value.
None == <<>>
Some(x) == <<x>>
IsSome(o) == Len(o) = 1
Get(o) == o[1]

\* ------------------------------------------------------------------------
\* Bounds of the model
\* ------------------------------------------------------------------------
\* Largest number of text fragments one model stream delivers.
MaxFragments == 2
\* Largest number of bot commands the continuation-store runs handle.
MaxOps == 3

\* ------------------------------------------------------------------------
\* Text helpers
\* ------------------------------------------------------------------------
Drop(s, n) == SubSeq(s, n + 1, Len(s))
Take(s, n) == SubSeq(s, 1, n)

\* The path a JSON string token spells.
StringOf(tok) == IF tok = "Va" THEN "a" ELSE "b"
IsStringTok(tok) == tok \in {"Va", "Vb"}

\* re.findall(r'"path"\s*:\s*"([^"]+)"', text): the paths of the complete
\* path markers of text, left to right, matches not overlapping.
RECURSIVE FindPaths(_)
FindPaths(text) ==
    IF Len(text) < 2 THEN <<>>
    ELSE IF text[1] = "K" /\ IsStringTok(text[2])
         THEN <<StringOf(text[2])>> \o FindPaths(Drop(text, 2))
         ELSE FindPaths(Drop(text, 1))

InSeq(x, s) == \E i \in 1..Len(s) : s[i] = x

\* The same loop without the "if f not in files_detected" test.
RECURSIVE ScanNewFiles_nodedup(_, _, _)
ScanNewFiles_nodedup(new_files, files_detected, emitted) ==
    IF new_files = <<>> THEN [files |-> files_detected, events |-> emitted]
    ELSE LET f == Head(new_files) IN
         ScanNewFiles_nodedup(Tail(new_files), Append(files_detected, f),
             Append(emitted, [status |-> "writing_file", current_file |-> f,
                              files_so_far |-> Append(files_detected, f)]))

\* The loop "for f in new_files: if f not in files_detected: append, notify":
\* returns the new files_detected and the events delivered, in order.
RECURSIVE ScanNewFiles(_, _, _)
ScanNewFiles(new_files, files_detected, emitted) ==
    IF new_files = <<>> THEN [files |-> files_detected, events |-> emitted]
    ELSE LET f == Head(new_files) IN
         IF InSeq(f, files_detected)
         THEN ScanNewFiles(Tail(new_files), files_detected, emitted)
         ELSE ScanNewFiles(Tail(new_files), Append(files_detected, f),
                  Append(emitted, [status |-> "writing_file",
                                   current_file |-> f,
                                   files_so_far |-> Append(files_detected, f)]))

\* ------------------------------------------------------------------------
\* json.loads on token text
\* ------------------------------------------------------------------------
\* Parsed JSON values
JDict(path, content, action, summary, next_steps, files) ==
    [type |-> "dict", path |-> path, content |-> content, action |-> action,
     summary |-> summary, next_steps |-> next_steps, files |-> files,
     items |-> <<>>]
EmptyDict == JDict(None, FALSE, None, FALSE, FALSE, None)
JList(items) ==
    [type |-> "list", path |-> None, content |-> FALSE, action |-> None,
     summary |-> FALSE, next_steps |-> FALSE, files |-> None, items |-> items]
JScalar == [JList(<<>>) EXCEPT !.type = "scalar"]
JBad == [type |-> "error"]

ActionOf(tok) == CASE tok = "Ac" -> "create"
                   [] tok = "Au" -> "update"
                   [] OTHER      -> "delete"

\* Each parser returns [ok, val, rest]: rest is the text after the value.
PFail == [ok |-> FALSE, val |-> JBad, rest |-> <<>>]

RECURSIVE ParseValue(_), ParseMembers(_, _), ParseItems(_, _)
ParseValue(text) ==
    IF text = <<>> THEN PFail
    ELSE CASE text[1] = "{" -> ParseMembers(Tail(text), EmptyDict)
           [] text[1] = "[" -> ParseItems(Tail(text), <<>>)
           [] text[1] = "0" -> [ok |-> TRUE, val |-> JScalar, rest |-> Tail(text)]
           [] IsStringTok(text[1]) ->
                  [ok |-> TRUE, val |-> JScalar, rest |-> Tail(text)]
           [] OTHER -> PFail

ParseMembers(text, d) ==
    IF text = <<>> THEN PFail
    ELSE LET t == text[1] IN
         CASE t = "}" -> [ok |-> TRUE, val |-> d, rest |-> Tail(text)]
           [] t = "K" ->
                IF Len(text) >= 2 /\ IsStringTok(text[2])
                THEN ParseMembers(Drop(text, 2),
                                  [d EXCEPT !.path = Some(StringOf(text[2]))])
                ELSE PFail
           [] t = "C" -> ParseMembers(Tail(text), [d EXCEPT !.content = TRUE])
           [] t \in {"Ac", "Au", "Ad"} ->
                ParseMembers(Tail(text), [d EXCEPT !.action = Some(ActionOf(t))])
           [] t = "S" -> ParseMembers(Tail(text), [d EXCEPT !.summary = TRUE])
           [] t = "N" -> ParseMembers(Tail(text), [d EXCEPT !.next_steps = TRUE])
           [] t = "F" ->
                LET v == ParseValue(Tail(text)) IN
                IF v.ok THEN ParseMembers(v.rest, [d EXCEPT !.files = Some(v.val)])
                ELSE PFail
           [] OTHER -> PFail

ParseItems(text, items) ==
    IF text = <<>> THEN PFail
    ELSE IF text[1] = "]"
         THEN [ok |-> TRUE, val |-> JList(items), rest |-> Tail(text)]
         ELSE LET v == ParseValue(text) IN
              IF v.ok THEN ParseItems(v.rest, Append(items, v.val)) ELSE PFail

\* json.loads(content): the value, or "error" (JSONDecodeError) when the text
\* is not exactly one JSON value.
JsonLoads(content) ==
    LET p == ParseValue(content) IN
    IF p.ok /\ p.rest = <<>> THEN p.val ELSE JBad

\* ------------------------------------------------------------------------
\* _parse_ai_response_with_meta
\* ------------------------------------------------------------------------
FileChange(path, content, action) ==
    [path |-> path, content |-> content, action |-> action]

\* The "if content.startswith("```")" branch: drop the first line, and the
\* last line as well when it is a closing fence.
StripFence(content) ==
    IF content # <<>> /\ content[1] = "FENCE"
    THEN IF content[Len(content)] = "FENCE"
         THEN SubSeq(content, 2, Len(content) - 1)
         ELSE Drop(content, 1)
    ELSE content

\* The files_data of a parsed dict: data["files"] when the key is there,
\* else [data]; a value that is not a list is wrapped in a list.
FilesData(data) ==
    LET fd == IF IsSome(data.files) THEN Get(data.files) ELSE data IN
    IF fd.type = "list" THEN fd.items ELSE <<fd>>

\* The loop over files_data: items that are dicts with "path" and "content"
\* become FileChange objects, action defaulting to "create".
RECURSIVE ChangesOf(_)
ChangesOf(items) ==
    IF items = <<>> THEN <<>>
    ELSE LET item == Head(items) IN
         IF item.type = "dict" /\ IsSome(item.path) /\ item.content
         THEN <<FileChange(Get(item.path), "ai",
                           IF IsSome(item.action) THEN Get(item.action)
                           ELSE "create")>> \o ChangesOf(Tail(items))
         ELSE ChangesOf(Tail(items))

NoChanges(raised) ==
    [raised |-> raised, changes |-> <<>>, summary |-> None, next_steps |-> None]

\* raised: an exception other than JSONDecodeError left the function
\* (data.get on a value that is not a dict raises AttributeError).
ParseAiResponseWithMeta(content) ==
    LET data == JsonLoads(StripFence(content)) IN
    CASE data.type = "error" -> NoChanges(FALSE)
      [] data.type # "dict"  -> NoChanges(TRUE)
      [] OTHER ->
           [raised     |-> FALSE,
            changes    |-> ChangesOf(FilesData(data)),
            summary    |-> IF data.summary THEN Some("summary") ELSE None,
            next_steps |-> IF data.next_steps THEN Some("next_steps") ELSE None]

\* ------------------------------------------------------------------------
\* Prompt helpers
\* ------------------------------------------------------------------------
\* The prompts of the model: one that names a file, one that does not.
Prompts == {"create notes", "fix the login bug"}

\* Readings of datetime.utcnow(), formatted "%Y%m%d_%H%M%S".
Timestamps == {"20261102_101500", "20261102_101501"}

\* f"amadeus_change_{timestamp}.md"
TimestampedPath(timestamp) ==
    IF timestamp = "20261102_101500" THEN "amadeus_change_20261102_101500.md"
    ELSE "amadeus_change_20261102_101501.md"

VARIABLE utcnow      \* the clock reading _simple_file_creation gets

\* The content of the default edit embeds the clock reading as well.
SimpleFileCreationAt_timeInContent(prompt, timestamp) ==
    IF prompt = "create notes"
    THEN <<FileChange("notes.txt", "prompt", "create")>>
    ELSE <<FileChange(TimestampedPath(timestamp), timestamp, "create")>>

\* _simple_file_creation at a clock reading: the file named by the prompt
\* (with ".txt" when it has no extension), else amadeus_change_<timestamp>.md;
\* the content is built from the prompt.
SimpleFileCreationAt(prompt, timestamp) ==
    IF prompt = "create notes"
    THEN <<FileChange("notes.txt", "prompt", "create")>>
    ELSE <<FileChange(TimestampedPath(timestamp), "prompt", "create")>>

\* The fallback edit built without action="create": the dataclass default.
SimpleFileCreation_defaultAction(prompt) ==
    [i \in 1..1 |-> [SimpleFileCreationAt(prompt, utcnow)[i]
                         EXCEPT !.action = "update"]]

\* _simple_file_creation as a run calls it.
SimpleFileCreation(prompt) == SimpleFileCreationAt(prompt, utcnow)

\* The run works on the default branch itself.
GenerateBranchName_base(prompt) == "main"

\* _generate_branch_name: amadeus/<slug>-<timestamp>-<random suffix>.
GenerateBranchName(prompt) ==
    IF prompt = "create notes"
    THEN "amadeus/create-notes-<timestamp>-<hex>"
    ELSE "amadeus/login-<timestamp>-<hex>"

\* ------------------------------------------------------------------------
\* Provider selection of _generate_ai_changes
\* ------------------------------------------------------------------------
\* user_model.startswith("claude"), on the model names of Args.
StartsWithClaude(user_model) == user_model = "claude-opus-4"

\* The fallback passes the requested model on to the other provider.
SelectProvider_keepsModel(user_model, has_anthropic, has_openai) ==
    IF StartsWithClaude(user_model)
    THEN IF has_anthropic THEN [provider |-> "anthropic", model |-> user_model]
         ELSE IF has_openai THEN [provider |-> "openai", model |-> user_model]
         ELSE [provider |-> "none", model |-> "none"]
    ELSE IF has_openai THEN [provider |-> "openai", model |-> user_model]
         ELSE IF has_anthropic
              THEN [provider |-> "anthropic", model |-> user_model]
         ELSE [provider |-> "none", model |-> "none"]

SelectProvider(user_model, has_anthropic, has_openai) ==
    IF StartsWithClaude(user_model)
    THEN IF has_anthropic THEN [provider |-> "anthropic", model |-> user_model]
         ELSE IF has_openai THEN [provider |-> "openai", model |-> "gpt-5.2"]
         ELSE [provider |-> "none", model |-> "none"]
    ELSE IF has_openai THEN [provider |-> "openai", model |-> user_model]
         ELSE IF has_anthropic
              THEN [provider |-> "anthropic", model |-> "claude-sonnet-4-20250514"]
         ELSE [provider |-> "none", model |-> "none"]

\* ------------------------------------------------------------------------
\* Inputs of a run and outcomes of the outside world
\* ------------------------------------------------------------------------
\* The answers a model stream can carry, as token text.
Responses ==
    { <<"{", "S", "N", "F", "[", "{", "K", "Va", "C", "Ac", "}", "]", "}">>,
      <<"{", "S", "F", "[", "{", "K", "Va", "C", "Au", "}",
                            "{", "K", "Vb", "C", "}", "]", "}">>,
      <<"FENCE", "{", "S", "N", "F", "[", "{", "K", "Va", "C", "Ac", "}", "]", "}",
        "FENCE">>,
      <<"[", "{", "K", "Va", "C", "Ac", "}", "]">>,
      <<"{", "F", "[", "{", "K", "Va", "}", "{", "K", "Vb", "C", "Ad", "}", "]", "}">>,
      <<"{", "F", "[", "{", "K", "Va", "C", "}", "{", "K", "Va", "}",
                       "{", "K", "Vb", "C", "Au", "}", "]", "}">>,
      <<"{", "K", "Vb", "C", "}">>,
      <<"{", "S", "F", "[", "]", "}">>,
      <<"{", "S", "F", "[", "{", "K", "Va", "C">>,
      <<"0">>,
      <<>> }

ExistingBranch == "amadeus/health-0101-ab12"
\* Change-request numbers: the one a continuation passes in, and the one the
\* hosting API gives a change request opened by the run.
PrNumbers == [existing |-> 42, created |-> 43]
DefaultBranch == "main"

Args ==
    [github             : {"ok", "not_connected", "no_repo"},
     anthropic_key      : BOOLEAN,
     openai_key         : BOOLEAN,
     user_model         : {"claude-opus-4", "o3"},
     prompt             : Prompts,
     existing_branch    : {None, Some(ExistingBranch)},
     existing_pr_number : {None, Some(PrNumbers.existing)},
     create_pr          : BOOLEAN]

VARIABLES
    args,            \* the arguments of execute and the user's settings
    pc,              \* the await execute is suspended at
    branch_name,     \* Option: the working branch
    file_tree,       \* the tree context: "unset", "tree" or "empty"
    changes,         \* the edit list
    idx,             \* index of the next change of the commit loop
    commit,          \* Option: the value of the last create_or_update_file
    changed_files,   \* paths of the writes that succeeded
    meta,            \* summary and next_steps of the model call
    pending,         \* text the open model stream has not delivered yet
    full_content,    \* text received from the stream
    files_detected,  \* paths the discovery scan has reported
    last_update_len, \* length of full_content at the last scan
    nfrag,           \* fragments received
    calls,           \* external calls issued, in order
    events,          \* StreamingUpdate objects delivered to on_stream
    progress_log,    \* percentages delivered to on_progress
    result,          \* Option: the WorkflowResult returned
    store,           \* _active_pr_branches: user id -> Option (branch, number)
    ops,             \* the bot commands handled so far, with what each saw
    selected_repo,   \* user.github.selected_repo of each user
    merged           \* the change requests merged so far

vars == <<utcnow, store, ops, selected_repo, merged, args, pc, branch_name, file_tree, changes, idx, commit, changed_files, meta,
          pending, full_content, files_detected, last_update_len, nfrag,
          calls, events, progress_log, result>>

\* What no step of execute touches.
outerVars == <<utcnow, store, ops, selected_repo, merged>>
runVars == <<branch_name, file_tree, changes, idx, commit, changed_files, meta>>
streamVars == <<pending, full_content, files_detected, last_update_len, nfrag,
                events>>

\* target: the branch (or, for a model request, the model) the call names;
\* sha: the hash the call sends; ok: the call returned what its caller takes
\* for success; returned: the call came back with a value (it did not raise);
\* status: the HTTP status of the response; base: the base branch of a
\* change request.
Call(op, target, path, sha, ok) ==
    [op |-> op, target |-> target, path |-> path, sha |-> sha, ok |-> ok,
     returned |-> TRUE, status |-> IF ok THEN "200" ELSE "404", base |-> ""]

\* The statuses of the hosting API the model draws from: success, a conflict
\* (the reference or change request exists already: 422; the hash sent is
\* stale: 409) and not found.
BranchStatuses == {"201", "422", "404"}
WriteStatuses == {"201", "409", "404"}
PullRequestStatuses == {"201", "422", "404"}

\* GitHubClient.create_branch: "return status == 201".
CreateBranchReturn(status) == status = "201"

\* GitHubClient.create_or_update_file: the Commit, or None when the status
\* is neither 200 nor 201.
CreateOrUpdateFileReturn(status, commit_sha) ==
    IF status \in {"200", "201"} THEN Some(commit_sha) ELSE None

\* GitHubClient.create_pull_request: "return data if status == 201 else None".
CreatePullRequestReturn(status) ==
    IF status = "201" THEN Some(PrNumbers.created) ELSE None

WorkflowResult(success, message, sha, pr_url, branch, files, error, sum, steps) ==
    [success |-> success, message |-> message, commit_sha |-> sha,
     pr_url |-> pr_url, branch |-> branch, changed_files |-> files,
     error |-> error, summary |-> sum, next_steps |-> steps]

\* The result of every "return WorkflowResult(success=False, ...)".
Failure(message, error) ==
    WorkflowResult(FALSE, message, None, None, None, None, Some(error),
                   None, None)

\* The users of the bot (telegram ids) and the change requests they can
\* continue on.
Users == {"u1", "u2"}
Entries == {<<ExistingBranch, PrNumbers.existing>>,
            <<"amadeus/login-0202-cd34", PrNumbers.created>>}
EmptyStore == [user_id \in Users |-> None]
\* The repositories a user can select, and the amadeus/ change requests of
\* each.
Repos == {"acme/app", "acme/site"}
PullRequestsOf(repo) == IF repo = "acme/app" THEN Entries ELSE {}

\* The clock is read by the default fallback edit only: it is left to vary
\* in the runs that can build that edit.
Init ==
    /\ args \in Args
    /\ utcnow \in Timestamps
    /\ (args.anthropic_key \/ args.openai_key \/ args.prompt = "create notes")
           => utcnow = "20261102_101500"
    /\ store = EmptyStore
    /\ ops = <<>>
    /\ selected_repo = [user_id \in Users |-> "acme/app"]
    /\ merged = {}
    /\ pc = "start"
    /\ branch_name = None
    /\ file_tree = "unset"
    /\ changes = <<>>
    /\ idx = 1
    /\ commit = None
    /\ changed_files = <<>>
    /\ meta = [summary |-> None, next_steps |-> None]
    /\ pending = <<>>
    /\ full_content = <<>>
    /\ files_detected = <<>>
    /\ last_update_len = 0
    /\ nfrag = 0
    /\ calls = <<>>
    /\ events = <<>>
    /\ progress_log = <<>>
    /\ result = None

Return(r) ==
    /\ result' = Some(r)
    /\ pc' = "done"

\* "if not repo:", "if not base_sha:", "if not branch_created:" (lines 130,
\* 143, 164).
Missing_never(value_ok) == FALSE
Missing(value_ok) == ~value_ok

\* "if not user.github.is_connected:" (line 102) on the github state of Args.
NotConnected_never(github) == FALSE
NotConnected(github) == github = "not_connected"

\* "if not user.api_keys.anthropic_key and not user.api_keys.openai_key:"
\* (line 183).
NoApiKeys_never(anthropic_key, openai_key) == FALSE
NoApiKeys(anthropic_key, openai_key) == ~anthropic_key /\ ~openai_key

\* "if existing_branch:" (line 151), "if not changed_files:" (line 223) and
\* "if existing_pr_number:" (line 234).
UseExistingBranch_never(existing_branch) == FALSE
UseExistingBranch(existing_branch) == IsSome(existing_branch)
NothingCommitted_never(the_files) == FALSE
NothingCommitted(the_files) == the_files = <<>>
ReusePullRequest_never(existing_pr_number) == FALSE
ReusePullRequest_always(existing_pr_number) == TRUE
ReusePullRequest(existing_pr_number) == IsSome(existing_pr_number)

\* The validations wait for the connection and the selection instead of
\* returning.
Validate_waits ==
    /\ pc = "start"
    /\ IF NotConnected(args.github) \/ args.github = "no_repo"
       THEN UNCHANGED <<pc, result, progress_log>>
       ELSE /\ pc' = "get_repo"
            /\ progress_log' = Append(progress_log, 10)
            /\ UNCHANGED result
    /\ UNCHANGED <<outerVars, args, runVars, streamVars, calls>>

\* execute, lines 101-127: the two validations, then progress 10.
Validate ==
    /\ pc = "start"
    /\ IF NotConnected(args.github)
       THEN /\ Return(Failure("GitHub not connected",
                              "Connect GitHub first with /github"))
            /\ UNCHANGED progress_log
       ELSE IF args.github = "no_repo"
       THEN /\ Return(Failure("No repository selected",
                              "Select a repo first with /repos"))
            /\ UNCHANGED progress_log
       ELSE /\ pc' = "get_repo"
            /\ progress_log' = Append(progress_log, 10)
            /\ UNCHANGED result
    /\ UNCHANGED <<outerVars, args, runVars, streamVars, calls>>

\* lines 129-140: get_repo returns, then progress 20.
GetRepo ==
    /\ pc = "get_repo"
    /\ \E found \in BOOLEAN :
         /\ calls' = Append(calls, Call("get_repo", "", "", None, found))
         /\ IF Missing(found)
            THEN /\ Return(Failure("Repository not found",
                                   "Could not access repo"))
                 /\ UNCHANGED progress_log
            ELSE /\ pc' = "get_branch_sha"
                 /\ progress_log' = Append(progress_log, 20)
                 /\ UNCHANGED result
    /\ UNCHANGED <<outerVars, args, runVars, streamVars>>

\* lines 142-159 and, with an existing branch, 172: get_branch_sha returns,
\* then the branch is reused or named.
GetBranchSha ==
    /\ pc = "get_branch_sha"
    /\ \E found \in BOOLEAN :
         /\ calls' = Append(calls, Call("get_branch_sha", DefaultBranch, "",
                                        None, found))
         /\ IF Missing(found)
            THEN /\ Return(Failure("Could not get branch SHA",
                                   "Could not read branch"))
                 /\ UNCHANGED <<progress_log, branch_name>>
            ELSE IF UseExistingBranch(args.existing_branch)
            THEN /\ branch_name' = args.existing_branch
                 /\ progress_log' = progress_log \o <<30, 40>>
                 /\ pc' = "get_tree"
                 /\ UNCHANGED result
            ELSE /\ branch_name' = Some(GenerateBranchName(args.prompt))
                 /\ progress_log' = Append(progress_log, 30)
                 /\ pc' = "create_branch"
                 /\ UNCHANGED result
    /\ UNCHANGED <<outerVars, args, file_tree, changes, idx, commit, changed_files, meta,
                   streamVars>>

\* lines 161-172: create_branch returns.
CreateBranch ==
    /\ pc = "create_branch"
    /\ \E status \in BranchStatuses :
         LET branch_created == CreateBranchReturn(status) IN
         /\ calls' = Append(calls, [Call("create_branch", Get(branch_name), "",
                                         Some("base_sha"), branch_created)
                                        EXCEPT !.status = status])
         /\ IF Missing(branch_created)
            THEN /\ Return(Failure("Could not create branch",
                                   "Could not create branch"))
                 /\ UNCHANGED progress_log
            ELSE /\ pc' = "get_tree"
                 /\ progress_log' = Append(progress_log, 40)
                 /\ UNCHANGED result
    /\ UNCHANGED <<outerVars, args, runVars, streamVars>>

\* A failed get_tree ends the run like the steps before it.
GetTree_failureIsFatal ==
    /\ pc = "get_tree"
    /\ \E tree \in {"tree", "empty"} :
         /\ file_tree' = tree
         /\ calls' = Append(calls, Call("get_tree", DefaultBranch, "", None,
                                        tree = "tree"))
         /\ IF tree = "empty"
            THEN /\ Return(Failure("Could not read tree", "Could not read tree"))
                 /\ UNCHANGED <<changes, progress_log>>
            ELSE IF NoApiKeys(args.anthropic_key, args.openai_key)
            THEN /\ changes' = SimpleFileCreation(args.prompt)
                 /\ progress_log' = progress_log \o <<50, 70, 80>>
                 /\ pc' = "commit"
                 /\ UNCHANGED result
            ELSE /\ progress_log' = Append(progress_log, 50)
                 /\ pc' = "model_open"
                 /\ UNCHANGED <<changes, result>>
    /\ UNCHANGED <<outerVars, args, branch_name, idx, commit, changed_files,
                   meta, streamVars>>

\* lines 174-197: get_tree returns (a failure gives the empty tree), then
\* without any AI key the edit list is the fallback edit and the commit loop
\* is entered; with a key the model is called.
GetTree ==
    /\ pc = "get_tree"
    /\ \E tree \in {"tree", "empty"} :
         /\ file_tree' = tree
         /\ calls' = Append(calls, Call("get_tree", DefaultBranch, "", None,
                                        tree = "tree"))
    /\ IF NoApiKeys(args.anthropic_key, args.openai_key)
       THEN /\ changes' = SimpleFileCreation(args.prompt)
            /\ progress_log' = progress_log \o <<50, 70, 80>>
            /\ pc' = "commit"
       ELSE /\ progress_log' = Append(progress_log, 50)
            /\ pc' = "model_open"
            /\ UNCHANGED changes
    /\ UNCHANGED <<outerVars, args, branch_name, idx, commit, changed_files, meta,
                   streamVars, result>>

\* The ValueError of _generate_ai_changes, lines 392-393, as execute's
\* "except Exception" returns it (lines 267-273).
NoChangesFailure ==
    Failure("Workflow failed",
            "AI returned no changes. Try a more specific request.")

\* The "thinking" notification sent once the response is open.
StartEvents_none == <<>>
StartEvents ==
    <<[status |-> "thinking", current_file |-> "", files_so_far |-> <<>>]>>

\* The "done" notification sent after the stream.
DoneEvents(files) ==
    <<[status |-> "done", current_file |-> "", files_so_far |-> files]>>

\* The ValueError of lines 365-366, as execute returns it.
NoKeysFailure ==
    Failure("Workflow failed",
            "No API keys configured. Use /settings to add your Anthropic or OpenAI key.")

\* The result keeps only the edits whose path was discovered in the stream.
StreamResult_detectedOnly(content, detected) ==
    LET parsed == ParseAiResponseWithMeta(content) IN
    IF parsed.raised THEN NoChanges(FALSE)
    ELSE LET Detected(change) == InSeq(change.path, detected) IN
         [parsed EXCEPT !.changes = SelectSeq(parsed.changes, Detected)]

\* What _call_*_streaming returns for the text received (lines 475, 477-479):
\* the parse of the whole text, or no changes when the parse raised.
StreamResult(content, detected) ==
    LET parsed == ParseAiResponseWithMeta(content) IN
    IF parsed.raised THEN NoChanges(FALSE) ELSE parsed

\* _generate_ai_changes up to the first await of _call_*_streaming: without
\* any key the ValueError of line 366; else the provider is selected, the
\* request is sent and the status is read.  A status other than 200 (or a
\* failure to connect) returns no changes.
ModelOpen ==
    /\ pc = "model_open"
    /\ IF ~args.anthropic_key /\ ~args.openai_key
       THEN /\ Return(NoKeysFailure)
            /\ UNCHANGED <<calls, events, pending>>
       ELSE \E status_200 \in BOOLEAN :
         /\ LET sel == SelectProvider(args.user_model, args.anthropic_key,
                                      args.openai_key) IN
            calls' = Append(calls, Call(sel.provider, sel.model, "", None,
                                        status_200))
         /\ IF ~status_200
            THEN /\ Return(NoChangesFailure)
                 /\ UNCHANGED <<events, pending>>
            ELSE /\ events' = events \o StartEvents
                 /\ \E r \in Responses : pending' = r
                 /\ pc' = "streaming"
                 /\ UNCHANGED result
    /\ UNCHANGED <<outerVars, args, runVars, full_content, files_detected,
                   last_update_len, nfrag, progress_log>>

\* "full_content[last_update_len:]" (lines 457 and 548): the text the scan
\* reads.
NewText_wholeBuffer(content, scanned_len) == content
NewText(content, scanned_len) == Drop(content, scanned_len)

\* One pass of "async for line": a text delta of k tokens arrives, is
\* appended to full_content, and the appended suffix is scanned for paths.
StreamFragment ==
    /\ pc = "streaming"
    /\ nfrag < MaxFragments
    /\ \E k \in 1..Len(pending) :
         /\ (nfrag + 1 < MaxFragments \/ k = Len(pending))
         /\ LET text == Take(pending, k)
                content == full_content \o text
                new_files == FindPaths(NewText(content, last_update_len))
                scan == ScanNewFiles(new_files, files_detected, <<>>)
            IN /\ full_content' = content
               /\ files_detected' = scan.files
               /\ events' = events \o scan.events
               /\ last_update_len' = Len(content)
               /\ pending' = Drop(pending, k)
    /\ nfrag' = nfrag + 1
    /\ UNCHANGED <<outerVars, args, pc, runVars, calls, progress_log, result>>

\* The stream ends: the done event, the parse of the whole text, and back in
\* execute either the ValueError or progress 70 and 80 and the commit loop.
StreamEnd ==
    /\ pc = "streaming"
    /\ pending = <<>>
    /\ events' = events \o DoneEvents(files_detected)
    /\ LET ret == StreamResult(full_content, files_detected)
       IN IF ret.changes = <<>>
          THEN /\ Return(NoChangesFailure)
               /\ UNCHANGED <<changes, meta, progress_log>>
          ELSE /\ changes' = ret.changes
               /\ meta' = [summary |-> ret.summary,
                           next_steps |-> ret.next_steps]
               /\ progress_log' = progress_log \o <<70, 80>>
               /\ pc' = "commit"
               /\ UNCHANGED result
    /\ UNCHANGED <<outerVars, args, branch_name, file_tree, idx, commit, changed_files,
                   pending, full_content, files_detected, last_update_len,
                   nfrag, calls>>

\* An exception inside _call_*_streaming (transport failure in mid-stream,
\* cancellation, a raising on_stream): "except Exception" returns no changes
\* without a done event.
StreamError ==
    /\ pc = "streaming"
    /\ Return(NoChangesFailure)
    /\ UNCHANGED <<outerVars, args, runVars, streamVars, calls, progress_log>>

\* The result of line 255.
Success(the_commit, the_files, pr_url) ==
    WorkflowResult(TRUE, "Changes pushed successfully!", the_commit, pr_url,
                   branch_name, Some(the_files), None, meta.summary,
                   meta.next_steps)

\* lines 253-265, entered with 100 on its way to on_progress: the success
\* result, or, when that on_progress call raises, the result of the except
\* branch (lines 267-273).
ReturnSuccess(the_commit, the_files, pr_url) ==
    \E done_raised \in BOOLEAN :
        Return(IF done_raised THEN Failure("Workflow failed", "callback exception")
               ELSE Success(the_commit, the_files, pr_url))

\* "if change.action == "update":" (line 205).
NeedsRead_never(action) == FALSE
NeedsRead(action) == action = "update"

\* "for change in changes:" (line 202): the loop moves on to the next edit
\* whatever the write returned.
NextIndex_retry(i, written) == IF written THEN i + 1 ELSE i
NextIndex(i, written) == i + 1

\* One iteration of "for change in changes" (lines 202-221): the read of the
\* current blob sha for an update, then the write.  After the last iteration,
\* lines 223-253 up to the next external call or the return.
CommitEdit ==
    /\ pc = "commit"
    /\ LET change == changes[idx] IN
       \E existing_sha \in {None, Some("blob")}, status \in WriteStatuses :
         /\ ~NeedsRead(change.action) => existing_sha = None
         /\ LET the_commit == CreateOrUpdateFileReturn(status, idx)
                written == IsSome(the_commit)
                the_files == IF written THEN Append(changed_files, change.path)
                             ELSE changed_files
                read == IF NeedsRead(change.action)
                        THEN <<Call("get_file_content", Get(branch_name),
                                    change.path, None, IsSome(existing_sha))>>
                        ELSE <<>>
                write == [Call("create_or_update_file", Get(branch_name),
                               change.path, existing_sha, written)
                             EXCEPT !.status = status]
                next_idx == NextIndex(idx, written)
            IN /\ calls' = calls \o read \o <<write>>
               /\ commit' = the_commit
               /\ changed_files' = the_files
               /\ IF next_idx <= Len(changes)
                  THEN /\ idx' = next_idx
                       /\ UNCHANGED <<pc, result, progress_log>>
                  ELSE /\ UNCHANGED idx
                       /\ IF NothingCommitted(the_files)
                          THEN /\ Return(Failure("No changes committed",
                                                 "No files could be modified"))
                               /\ UNCHANGED progress_log
                          ELSE IF ReusePullRequest(args.existing_pr_number)
                          THEN /\ progress_log' = progress_log \o <<90, 100>>
                               /\ ReturnSuccess(the_commit, the_files,
                                                args.existing_pr_number)
                          ELSE IF args.create_pr
                          THEN /\ progress_log' = Append(progress_log, 90)
                               /\ pc' = "create_pr"
                               /\ UNCHANGED result
                          ELSE /\ progress_log' = Append(progress_log, 100)
                               /\ ReturnSuccess(the_commit, the_files, None)
    /\ UNCHANGED <<outerVars, args, branch_name, file_tree, changes, meta, streamVars>>

\* lines 241-265: create_pull_request returns, progress 100, the result.
CreatePullRequest ==
    /\ pc = "create_pr"
    /\ \E status \in PullRequestStatuses :
         LET pr == CreatePullRequestReturn(status) IN
         /\ calls' = Append(calls, [Call("create_pull_request",
                                         Get(branch_name), "", None, IsSome(pr))
                                        EXCEPT !.status = status,
                                               !.base = DefaultBranch])
         /\ ReturnSuccess(commit, changed_files, pr)
    /\ progress_log' = Append(progress_log, 100)
    /\ UNCHANGED <<outerVars, args, runVars, streamVars>>

\* The request execute is about to await at pc, as a call that failed.
PendingCall ==
    CASE pc = "get_repo"       -> Call("get_repo", "", "", None, FALSE)
      [] pc = "get_branch_sha" -> Call("get_branch_sha", DefaultBranch, "",
                                       None, FALSE)
      [] pc = "create_branch"  -> Call("create_branch", Get(branch_name), "",
                                       Some("base_sha"), FALSE)
      [] pc = "get_tree"       -> Call("get_tree", DefaultBranch, "", None, FALSE)
      [] pc = "commit"         ->
           Call(IF NeedsRead(changes[idx].action) THEN "get_file_content"
                ELSE "create_or_update_file",
                Get(branch_name), changes[idx].path, None, FALSE)
      [] OTHER                 ->
           [Call("create_pull_request", Get(branch_name), "", None, FALSE)
               EXCEPT !.base = DefaultBranch]

\* The exception leaves execute: no result is returned.
Raise_propagates ==
    /\ pc \in {"get_repo", "get_branch_sha", "create_branch", "get_tree",
               "model_open", "commit", "create_pr"}
    /\ \E from_call \in BOOLEAN :
         /\ from_call => pc # "model_open"
         /\ (~from_call /\ pc = "commit") => idx = 1
         /\ calls' = IF from_call
                     THEN Append(calls, [PendingCall EXCEPT !.returned = FALSE,
                                                            !.status = "none"])
                     ELSE calls
    /\ pc' = "done"
    /\ UNCHANGED <<outerVars, args, runVars, streamVars, progress_log, result>>

\* An exception leaves an await of the try block outside the model call (a
\* timeout or transport error of a GitHubClient request, which _request does
\* not catch, or a raising on_progress): lines 267-273.  Exceptions of the
\* model request itself are caught inside _call_*_streaming.
\* from_call: the awaited request was sent and raised; else the on_progress
\* call before it raised (the commit loop calls on_progress only before its
\* first iteration).  The raise of the last on_progress call, the one with
\* 100, is part of ReturnSuccess.
Raise ==
    /\ pc \in {"get_repo", "get_branch_sha", "create_branch", "get_tree",
               "model_open", "commit", "create_pr"}
    /\ \E from_call \in BOOLEAN :
         /\ from_call => pc # "model_open"
         /\ (~from_call /\ pc = "commit") => idx = 1
         /\ calls' = IF from_call
                     THEN Append(calls, [PendingCall EXCEPT !.returned = FALSE,
                                                            !.status = "none"])
                     ELSE calls
         /\ Return(Failure("Workflow failed",
                           IF from_call THEN "request timeout"
                           ELSE "callback exception"))
    /\ UNCHANGED <<outerVars, args, runVars, streamVars, progress_log>>

Next ==
    \/ Validate
    \/ GetRepo
    \/ GetBranchSha
    \/ CreateBranch
    \/ GetTree
    \/ ModelOpen
    \/ StreamFragment
    \/ StreamEnd
    \/ StreamError
    \/ CommitEdit
    \/ CreatePullRequest
    \/ Raise

Spec == Init /\ [][Next]_vars

\* A step of execute outside the model stream: the awaited request or
\* callback comes back, with a value, a failure or an exception.
Await == pc # "streaming" /\ Next

\* The event loop resumes execute whenever its await can complete, and every
\* request completes or fails; a model stream that neither delivers nor ends
\* is cut by the httpx timeout of lines 407-412 and 511, which is the
\* exception of StreamError.
LiveSpec == Init /\ [][Next]_vars /\ WF_vars(Await) /\ WF_vars(StreamError)

\* ------------------------------------------------------------------------
\* The continuation store of the bot (cli/multiuser.py)
\* ------------------------------------------------------------------------
\* run_bot handles one update at a time, each handler awaited to its end, so
\* every command is one step.  No pipeline run is open between commands.
pipelineVars == <<utcnow, args, pc, runVars, streamVars, calls, progress_log,
                  result>>

\* "_active_pr_branches[user.telegram_id] = (branch_name, pr_number)"
SetEntry_firstWins(st, user_id, entry) ==
    IF IsSome(st[user_id]) THEN st ELSE [st EXCEPT ![user_id] = Some(entry)]
SetEntry(st, user_id, entry) == [st EXCEPT ![user_id] = Some(entry)]

\* "_active_pr_branches.pop(user_id, None)"
PopEntry(st, user_id) == [st EXCEPT ![user_id] = None]

\* "return _active_pr_branches.get(user_id)"
GetActivePrBranch(st, user_id) == st[user_id]

\* "existing_branch = active_pr[0] if active_pr else None" and
\* "existing_pr_number = active_pr[1] if active_pr else None" (lines
\* 1421-1422).
ExistingBranchOf(active_pr) == IF IsSome(active_pr) THEN Some(Get(active_pr)[1]) ELSE None
ExistingPrNumberOf_none(active_pr) == None
ExistingPrNumberOf(active_pr) == IF IsSome(active_pr) THEN Some(Get(active_pr)[2]) ELSE None

\* The runs of execute as the handler sees them: the continuation arguments
\* the run was started with and, of the WorkflowResult it returned, success,
\* branch and change-request reference.
ExecuteOutcomes(prompt, existing_branch, existing_pr_number) ==
    LET branch == IF IsSome(existing_branch) THEN existing_branch
                  ELSE Some(GenerateBranchName(prompt))
    IN {[success |-> FALSE, branch |-> None, pr_url |-> None,
         existing_branch |-> existing_branch,
         existing_pr_number |-> existing_pr_number]}
       \cup {[success |-> TRUE, branch |-> branch, pr_url |-> pr_url,
              existing_branch |-> existing_branch,
              existing_pr_number |-> existing_pr_number] :
                pr_url \in IF IsSome(existing_pr_number)
                           THEN {existing_pr_number}
                           ELSE {None, Some(PrNumbers.created)}}

\* One handled command: value is the entry it set or read (the change
\* request or repository, for a merge or a selection), after the store it
\* left; repo and merged are the user's selection and the merged change
\* requests when the command arrived.
Op(op, user, value, res, after) ==
    [op |-> op, user |-> user, value |-> value, result |-> res, after |-> after,
     repo |-> selected_repo[user], merged |-> merged]

IdleArgs ==
    [github |-> "ok", anthropic_key |-> FALSE, openai_key |-> FALSE,
     user_model |-> "o3", prompt |-> "create notes", existing_branch |-> None,
     existing_pr_number |-> None, create_pr |-> TRUE]

\* The bot after start-up: "_active_pr_branches = {}"; every user has
\* connected GitHub and selected a repository.
StoreInit ==
    /\ store = EmptyStore
    /\ ops = <<>>
    /\ selected_repo = [user_id \in Users |-> "acme/app"]
    /\ merged = {}
    /\ args = IdleArgs
    /\ utcnow = "20261102_101500"
    /\ pc = "idle"
    /\ branch_name = None
    /\ file_tree = "unset"
    /\ changes = <<>>
    /\ idx = 1
    /\ commit = None
    /\ changed_files = <<>>
    /\ meta = [summary |-> None, next_steps |-> None]
    /\ pending = <<>>
    /\ full_content = <<>>
    /\ files_detected = <<>>
    /\ last_update_len = 0
    /\ nfrag = 0
    /\ calls = <<>>
    /\ events = <<>>
    /\ progress_log = <<>>
    /\ result = None

\* handle_continue_command (/continue, or the "Continue PR" button): the
\* change request is looked up in the selected repository, by its number
\* (get_pull_request, whatever its state) or as the first open amadeus/
\* change request; when found its branch and number are stored.
HandleContinueCommand(user) ==
    /\ Len(ops) < MaxOps
    /\ \E by_number \in BOOLEAN :
       \E pr \in {None} \cup {Some(e) : e \in PullRequestsOf(selected_repo[user])} :
         /\ (IsSome(pr) /\ ~by_number) => Get(pr) \notin merged
         /\ IF pr = None
            THEN /\ ops' = Append(ops, Op("continue_failed", user, None, None, store))
                 /\ UNCHANGED store
            ELSE LET st == SetEntry(store, user, Get(pr)) IN
                 /\ store' = st
                 /\ ops' = Append(ops, Op("set", user, pr, None, st))
    /\ UNCHANGED <<selected_repo, merged>>
    /\ UNCHANGED pipelineVars

\* /stop (lines 366-374) and the "Stop Continuing" button (lines 1683-1691):
\* clear_active_pr_branch.
ClearActivePrBranch(user) ==
    /\ Len(ops) < MaxOps
    /\ LET st == PopEntry(store, user) IN
       /\ store' = st
       /\ ops' = Append(ops, Op("clear", user, None, None, st))
    /\ UNCHANGED <<selected_repo, merged>>
    /\ UNCHANGED pipelineVars

\* /new: handle_user_message returns from the branch of lines 274-282
\* ("/clear", "/new", "/reset": clear_session), before the test of line 366
\* is reached.
HandleNewCommand(user) ==
    /\ Len(ops) < MaxOps
    /\ ops' = Append(ops, Op("new", user, None, None, store))
    /\ UNCHANGED <<store, selected_repo, merged>>
    /\ UNCHANGED pipelineVars

\* handle_merge_command: an open change request of the selected repository
\* is merged, or there is none or the merge is refused.
HandleMergeCommand(user) ==
    /\ Len(ops) < MaxOps
    /\ \E pr \in {None} \cup {Some(e) : e \in PullRequestsOf(selected_repo[user]) \ merged} :
         /\ merged' = IF IsSome(pr) THEN merged \cup {Get(pr)} ELSE merged
         /\ ops' = Append(ops, Op(IF IsSome(pr) THEN "merge" ELSE "merge_failed",
                                  user, pr, None, store))
    /\ UNCHANGED <<store, selected_repo>>
    /\ UNCHANGED pipelineVars

\* handle_repo_selection: "self.db.set_github_repo(...)".
HandleRepoSelection(user) ==
    /\ Len(ops) < MaxOps
    /\ \E repo_full_name \in Repos :
         /\ selected_repo' = [selected_repo EXCEPT ![user] = repo_full_name]
         /\ ops' = Append(ops, Op("select", user, Some(repo_full_name), None, store))
    /\ UNCHANGED <<store, merged>>
    /\ UNCHANGED pipelineVars

\* The handler stores the change request a fresh run opened.
HandleGithubWorkflow_entersContinuation(user) ==
    /\ Len(ops) < MaxOps
    /\ LET active_pr == GetActivePrBranch(store, user)
           existing_branch == ExistingBranchOf(active_pr)
           existing_pr_number == ExistingPrNumberOf(active_pr)
       IN \E prompt \in Prompts :
          \E res \in ExecuteOutcomes(prompt, existing_branch, existing_pr_number) :
            LET st == IF res.success /\ ~IsSome(active_pr) /\ IsSome(res.pr_url)
                      THEN SetEntry(store, user,
                                    <<Get(res.branch), Get(res.pr_url)>>)
                      ELSE store
            IN /\ store' = st
               /\ ops' = Append(ops, Op("run", user, active_pr, Some(res), st))
    /\ UNCHANGED <<selected_repo, merged>>
    /\ UNCHANGED pipelineVars

\* handle_github_workflow, lines 1418-1518: the user's entry is read, execute
\* runs with it on the selected repository and the result is reported.
HandleGithubWorkflow(user) ==
    /\ Len(ops) < MaxOps
    /\ LET active_pr == GetActivePrBranch(store, user)
           existing_branch == ExistingBranchOf(active_pr)
           existing_pr_number == ExistingPrNumberOf(active_pr)
       IN \E prompt \in Prompts :
          \E res \in ExecuteOutcomes(prompt, existing_branch, existing_pr_number) :
            ops' = Append(ops, Op("run", user, active_pr, Some(res), store))
    /\ UNCHANGED <<store, selected_repo, merged>>
    /\ UNCHANGED pipelineVars

StoreNext ==
    \/ \E user \in Users : HandleContinueCommand(user)
    \/ \E user \in Users : ClearActivePrBranch(user)
    \/ \E user \in Users : HandleNewCommand(user)
    \/ \E user \in Users : HandleMergeCommand(user)
    \/ \E user \in Users : HandleRepoSelection(user)
    \/ \E user \in Users : HandleGithubWorkflow(user)

StoreSpec == StoreInit /\ [][StoreNext]_vars

\* ------------------------------------------------------------------------
\* Properties
\* ------------------------------------------------------------------------
Returned == IsSome(result)
Res == Get(result)
\* The committed paths of the result, None read as the empty list.
ResultFiles ==
    IF IsSome(Res.changed_files) THEN Get(Res.changed_files) ELSE <<>>

Paths(s) == [i \in 1..Len(s) |-> s[i].path]
IsWrite(c) == c.op = "create_or_update_file"
IsGoodWrite(c) == c.op = "create_or_update_file" /\ c.ok
WriteCalls == SelectSeq(calls, IsWrite)
SuccessfulWrites == Paths(SelectSeq(calls, IsGoodWrite))
NoCall(op) == \A i \in 1..Len(calls) : calls[i].op # op
ModelCalled == \E i \in 1..Len(calls) : calls[i].op \in {"anthropic", "openai"}
IsDone(e) == e.status = "done"
IsWriting(e) == e.status = "writing_file"
DoneCount == Len(SelectSeq(events, IsDone))
Discoveries == SelectSeq(events, IsWriting)

RECURSIVE IsSubseq(_, _)
IsSubseq(a, b) ==
    IF a = <<>> THEN TRUE
    ELSE IF b = <<>> THEN FALSE
    ELSE IF Head(a) = Head(b) THEN IsSubseq(Tail(a), Tail(b))
    ELSE IsSubseq(a, Tail(b))

\* C1: every returned result has success = true exactly when its list of
\* committed paths is non-empty.
C1_SuccessIffCommitted ==
    Returned => (Res.success <=> ResultFiles # <<>>)

\* A run returned success although one of its writes had failed.
C1_Witness ==
    /\ Returned /\ Res.success
    /\ Len(ResultFiles) < Len(changes)

\* C2: in a finished run with a non-empty edit list, the result's committed
\* paths are a subsequence of the edit list's paths and are exactly the paths
\* of the writes that succeeded.
C2_CommittedAreTheWritten ==
    (pc = "done" /\ changes # <<>>) =>
        /\ IsSubseq(ResultFiles, Paths(changes))
        /\ ResultFiles = SuccessfulWrites

\* C3: in a finished run where at least one write succeeded, every edit got
\* its write, the result is a success and its committed paths are the paths
\* written; the "No changes committed" failure is returned only when no
\* write succeeded.
C3_PartialCommitSucceeds ==
    /\ (pc = "done" /\ SuccessfulWrites # <<>>) =>
           /\ Len(WriteCalls) = Len(changes)
           /\ Res.success
           /\ ResultFiles = SuccessfulWrites
    /\ (pc = "done" /\ Res.message = "No changes committed") =>
           SuccessfulWrites = <<>>

\* C4: when a model request was sent and the call failed (no done event was
\* reached), the finished run does not carry the failure of the generation
\* step: its edit list is the fallback edit.
C4_ModelFailureFallsBack ==
    (pc = "done" /\ ModelCalled /\ DoneCount = 0) =>
        /\ Res # NoChangesFailure
        /\ changes = SimpleFileCreation(args.prompt)

\* C5: when the stream completed and its text parses to no usable edit, the
\* finished run does not carry the failure of the generation step: its edit
\* list is the fallback edit.
C5_UnusableOutputFallsBack ==
    (pc = "done" /\ DoneCount = 1
        /\ ParseAiResponseWithMeta(full_content).changes = <<>>) =>
        /\ Res # NoChangesFailure
        /\ changes = SimpleFileCreation(args.prompt)

\* C6 as stated: with existing_branch supplied no create_branch call is
\* issued, and the branch of every returned result is existing_branch.
C6_BranchInEveryResult ==
    IsSome(args.existing_branch) =>
        /\ NoCall("create_branch")
        /\ Returned => Res.branch = args.existing_branch

\* C6 amended: with existing_branch supplied no create_branch call is
\* issued, and the branch of every successful result is existing_branch.
C6_BranchReuse ==
    IsSome(args.existing_branch) =>
        /\ NoCall("create_branch")
        /\ (Returned /\ Res.success) => Res.branch = args.existing_branch

C6_Witness ==
    /\ IsSome(args.existing_branch)
    /\ Returned /\ Res.success
    /\ Res.branch = Some(ExistingBranch)

\* C7: with existing_pr_number supplied create_pull_request is never called,
\* and a successful result references the change request of that number.
C7_PullRequestReuse ==
    IsSome(args.existing_pr_number) =>
        /\ NoCall("create_pull_request")
        /\ (Returned /\ Res.success) => Res.pr_url = args.existing_pr_number

C7_Witness ==
    /\ IsSome(args.existing_pr_number) /\ args.create_pr
    /\ Returned /\ Res.success
    /\ Res.pr_url = Some(PrNumbers.existing)

\* C8: in the events delivered to on_stream, a thinking event precedes every
\* writing_file event, and a done event is the last event.
C8_EventOrder ==
    \A i \in 1..Len(events) :
        /\ events[i].status = "writing_file" =>
               \E j \in 1..(i - 1) : events[j].status = "thinking"
        /\ events[i].status = "done" => i = Len(events)

C8_Witness ==
    /\ pc = "done"
    /\ Len(Discoveries) >= 1
    /\ DoneCount = 1

\* C9: a finished run that called the model delivered the done event
\* exactly once.
C9_DoneExactlyOnce ==
    (pc = "done" /\ ModelCalled) => DoneCount = 1

\* C10: each writing_file event carries the list of the previous one with
\* exactly one path appended, a path that list did not hold.
C10_DiscoveryGrows ==
    \A k \in 1..Len(Discoveries) :
        LET before == IF k = 1 THEN <<>> ELSE Discoveries[k - 1].files_so_far
            f == Discoveries[k].current_file
        IN /\ Discoveries[k].files_so_far = Append(before, f)
           /\ ~InSeq(f, before)

\* Two discoveries were delivered from a text that names a path twice.
C10_Witness ==
    /\ Len(Discoveries) = 2
    /\ Len(FindPaths(full_content)) > Len(files_detected)

\* ------------------------------------------------------------------------
\* Parsing, provider selection and the failure paths
\* ------------------------------------------------------------------------
\* One list of file entries in the three response shapes.
EntryList == <<"[", "{", "K", "Va", "C", "Ac", "}", "]">>
FullShape == <<"{", "S", "N", "F">> \o EntryList \o <<"}">>
FencedShape == <<"FENCE">> \o FullShape \o <<"FENCE">>
BareListShape == EntryList

NoKeys == ~args.anthropic_key /\ ~args.openai_key
IsModelCall(c) == c.op \in {"anthropic", "openai"}
StreamEnded == DoneCount = 1

\* C11: a completed stream whose text is the entry list in any of the three
\* shapes (full object, fenced object, bare list) parses without an
\* exception to the edits the full object parses to.
C11_ShapesParseAlike ==
    (StreamEnded /\ full_content \in {FullShape, FencedShape, BareListShape}) =>
        /\ ~ParseAiResponseWithMeta(full_content).raised
        /\ ParseAiResponseWithMeta(full_content).changes
               = ParseAiResponseWithMeta(FullShape).changes

\* C12: once the stream has ended, the edits, summary and follow-ups of the
\* run are those the parse of the whole received text gives, whatever the
\* fragments were and whatever paths were discovered on the way.
C12_ResultFromWholeText ==
    StreamEnded =>
        LET p == ParseAiResponseWithMeta(full_content) IN
        /\ changes = p.changes
        /\ p.changes # <<>> =>
               meta = [summary |-> p.summary, next_steps |-> p.next_steps]

\* The text came in two fragments that split a path marker, so that no path
\* was discovered, and the run has its edits all the same.
C12_Witness ==
    /\ StreamEnded
    /\ nfrag = 2
    /\ FindPaths(full_content) # <<>>
    /\ files_detected = <<>>
    /\ changes # <<>>

\* C13: every model request goes to the provider and model this table gives
\* for the requested model and the keys held.
C13_SelectionTable ==
    \A i \in 1..Len(calls) :
        IsModelCall(calls[i]) =>
            LET m == args.user_model
                claude == m = "claude-opus-4"
                a == args.anthropic_key
                o == args.openai_key
                c == calls[i]
            IN /\ (claude /\ a) => (c.op = "anthropic" /\ c.target = m)
               /\ (claude /\ ~a /\ o) => (c.op = "openai" /\ c.target = "gpt-5.2")
               /\ (~claude /\ o) => (c.op = "openai" /\ c.target = m)
               /\ (~claude /\ ~o /\ a) =>
                      (c.op = "anthropic" /\ c.target = "claude-sonnet-4-20250514")

\* A claude-style model was requested without an Anthropic key, and the
\* request went to OpenAI.
C13_Witness ==
    /\ args.user_model = "claude-opus-4"
    /\ ~args.anthropic_key
    /\ \E i \in 1..Len(calls) : calls[i].op = "openai"

\* C14 as stated: a connected run without any AI key issues no call at all
\* and, once returned, has failed.
C14_FailsBeforeAnyCall ==
    (NoKeys /\ args.github = "ok") =>
        /\ calls = <<>>
        /\ Returned => ~Res.success

\* C14 amended: without any AI key no model request is issued and no result
\* carries the missing-keys configuration error.
C14_NoModelRequestNoConfigError ==
    NoKeys =>
        /\ ~ModelCalled
        /\ Returned => Res # NoKeysFailure

\* A run without any AI key returned success after repository calls.
C14_Witness ==
    /\ NoKeys
    /\ Returned /\ Res.success
    /\ calls # <<>>

\* C15: without any AI key there is no model request and no stream event;
\* once the tree fetch has returned the edit list is one edit with action
\* create, made from the prompt, and the run is at the commit loop or beyond.
C15_FallbackEdit ==
    NoKeys =>
        /\ ~ModelCalled
        /\ events = <<>>
        /\ file_tree # "unset" =>
               /\ Len(changes) = 1
               /\ changes[1].action = "create"
               /\ changes[1].content = "prompt"
               /\ pc \in {"commit", "create_pr", "done"}

\* The fallback edit was written and the run is about to open the change
\* request.
C15_Witness ==
    /\ NoKeys
    /\ pc = "create_pr"
    /\ changed_files = Paths(changes)

\* C16: without a GitHub connection or a selected repository no external
\* call is issued, no callback is invoked, and the run ends in its first step
\* with a failure result.
C16_NoCallWithoutRepository ==
    args.github # "ok" =>
        /\ calls = <<>>
        /\ progress_log = <<>>
        /\ events = <<>>
        /\ pc \in {"start", "done"}
        /\ Returned => ~Res.success

C16_Witness ==
    /\ args.github = "not_connected"
    /\ Returned
    /\ Res.message = "GitHub not connected"

\* C17: a get_repo, get_branch_sha or create_branch call that failed is the
\* last call of the run, and the run has returned a failure result.
C17_FatalStepsEndTheRun ==
    \A i \in 1..Len(calls) :
        (calls[i].op \in {"get_repo", "get_branch_sha", "create_branch"}
            /\ ~calls[i].ok) =>
            /\ i = Len(calls)
            /\ Returned /\ ~Res.success

\* create_branch reported failure after the two reads before it succeeded.
C17_Witness ==
    /\ Len(calls) = 3
    /\ calls[3].op = "create_branch"
    /\ calls[3].returned /\ ~calls[3].ok
    /\ Res.message = "Could not create branch"

\* The pipeline position of a call.
StepOf(c) ==
    CASE c.op = "get_repo"            -> 1
      [] c.op = "get_branch_sha"      -> 2
      [] c.op = "create_branch"       -> 3
      [] c.op = "get_tree"            -> 4
      [] IsModelCall(c)               -> 5
      [] c.op = "create_pull_request" -> 7
      [] OTHER                        -> 6

\* C18: the calls of a run are in pipeline order, each step other than the
\* file reads and writes occurring at most once; every file read and write
\* names the one working branch, which is existing_branch with no
\* create_branch call, or else the branch of a create_branch call that
\* succeeded earlier; and create_pull_request comes after a successful write.
C18_PipelineOrder ==
    /\ \A i, j \in 1..Len(calls) :
           i < j => /\ StepOf(calls[i]) <= StepOf(calls[j])
                    /\ StepOf(calls[i]) = StepOf(calls[j]) => StepOf(calls[i]) = 6
    /\ \A j \in 1..Len(calls) :
           StepOf(calls[j]) = 6 =>
               /\ Some(calls[j].target) = branch_name
               /\ IF IsSome(args.existing_branch)
                  THEN branch_name = args.existing_branch /\ NoCall("create_branch")
                  ELSE \E i \in 1..(j - 1) :
                           /\ calls[i].op = "create_branch"
                           /\ calls[i].ok
                           /\ calls[i].target = calls[j].target
    /\ \A j \in 1..Len(calls) :
           calls[j].op = "create_pull_request" =>
               \E i \in 1..(j - 1) : IsGoodWrite(calls[i])

\* A run on a fresh branch went through every step: seven or more calls, the
\* last one create_pull_request.
C18_Witness ==
    /\ ~IsSome(args.existing_branch)
    /\ ModelCalled
    /\ Len(WriteCalls) = 2
    /\ calls[Len(calls)].op = "create_pull_request"
    /\ calls[Len(calls)].ok

\* C19: when the last call of a finished run is a tree fetch, a file read or
\* write, or a change-request creation that timed out, the run was not ended
\* by the timeout, and with a successful write it returned success.
C19_TimeoutIsStepFailure ==
    (pc = "done" /\ calls # <<>> /\ ~calls[Len(calls)].returned
        /\ StepOf(calls[Len(calls)]) \in {4, 6, 7}) =>
        /\ Res.error # Some("request timeout")
        /\ SuccessfulWrites # <<>> => Res.success

\* C20: when a write succeeded and create_pull_request returned failure, the
\* result is a success with the written paths, the reference of the last
\* successful write, and no change-request URL.
C20_CommitSuccessWithoutUrl ==
    (pc = "done" /\ calls # <<>>
        /\ calls[Len(calls)].op = "create_pull_request"
        /\ calls[Len(calls)].returned /\ ~calls[Len(calls)].ok) =>
        /\ Res.success
        /\ ResultFiles = SuccessfulWrites
        /\ Res.pr_url = None
        /\ \E i \in 1..Len(changes) :
               /\ Res.commit_sha = Some(i)
               /\ changes[i].path = SuccessfulWrites[Len(SuccessfulWrites)]

\* ------------------------------------------------------------------------
\* Non-fatal steps, the result's references, conflicts and retries
\* ------------------------------------------------------------------------
Last(q) == q[Len(q)]
IsCreateBranch(c) == c.op = "create_branch"
IsPullRequest(c) == c.op = "create_pull_request"
IsConflict(c) == c.status \in {"409", "422"}
TreeFailed ==
    \E i \in 1..Len(calls) :
        calls[i].op = "get_tree" /\ calls[i].returned /\ ~calls[i].ok
\* The edit the write at position j of calls belongs to: writes go through
\* the edit list in order.
EditOfWrite(j) == changes[Cardinality({k \in 1..j : IsWrite(calls[k])})]

\* C21: once get_tree has reported failure the tree context is empty and the
\* generation step has been entered (its progress notification, 50, was
\* sent); such a run can end in success (the witness).
C21_TreeFailureIsNotFatal ==
    TreeFailed =>
        /\ file_tree = "empty"
        /\ InSeq(50, progress_log)

C21_Witness ==
    /\ TreeFailed
    /\ ModelCalled
    /\ Returned /\ Res.success

\* C22: the commit reference of every successful result is that of the last
\* write that succeeded.
C22_LastCommitReference ==
    (Returned /\ Res.success) =>
        \E i \in 1..Len(changes) :
            /\ Res.commit_sha = Some(i)
            /\ changes[i].path = Last(SuccessfulWrites)

\* C23: a call answered with a conflict status returns to its caller a value
\* other than the one a not-found answer gives, and a run ended by a
\* create_branch conflict does not return the generic create_branch failure.
C23_ConflictIsDistinct ==
    \A i \in 1..Len(calls) :
        IsConflict(calls[i]) =>
            /\ IsCreateBranch(calls[i]) =>
                   /\ calls[i].ok # CreateBranchReturn("404")
                   /\ Returned =>
                          Res # Failure("Could not create branch",
                                        "Could not create branch")
            /\ IsWrite(calls[i]) =>
                   CreateOrUpdateFileReturn(calls[i].status, i)
                       # CreateOrUpdateFileReturn("404", i)
            /\ IsPullRequest(calls[i]) =>
                   CreatePullRequestReturn(calls[i].status)
                       # CreatePullRequestReturn("404")

\* The path-naming rule of a path: the clock reading left out.
PathRule(path) ==
    IF \E t \in Timestamps : path = TimestampedPath(t)
    THEN "amadeus_change_<timestamp>.md" ELSE path
Structure(edits) ==
    [i \in 1..Len(edits) |-> [edits[i] EXCEPT !.path = PathRule(@)]]

\* C24: the fallback edit list of a run without AI keys is one edit, and with
\* the clock reading left out of its path it is the list a run with the same
\* prompt builds at any other clock reading: same action, same path rule,
\* same content.
C24_FallbackDeterminism ==
    (NoKeys /\ file_tree # "unset") =>
        /\ Len(changes) = 1
        /\ \A t \in Timestamps :
               Structure(changes) = Structure(SimpleFileCreationAt(args.prompt, t))

\* The run built the default edit at a clock reading that gives a path other
\* than the one an earlier run with this prompt got.
C24_Witness ==
    /\ NoKeys
    /\ changes # <<>>
    /\ changes[1].path = TimestampedPath(utcnow)
    /\ \E t \in Timestamps :
           changes[1].path # SimpleFileCreationAt(args.prompt, t)[1].path

\* Nothing raised, every call but the file reads reported success, the run
\* is not a continuation and the model's answer held at least one edit.
FreshRunAllGood ==
    /\ pc = "done"
    /\ ~IsSome(args.existing_branch) /\ ~IsSome(args.existing_pr_number)
    /\ args.create_pr
    /\ Res.error # Some("callback exception")
    /\ StreamEnded
    /\ ParseAiResponseWithMeta(full_content).changes # <<>>
    /\ \A i \in 1..Len(calls) :
           /\ calls[i].returned
           /\ calls[i].op # "get_file_content" => calls[i].ok

\* C25: in such a run one branch is created from the base head, the writes
\* are those of the edit list, in order, on that branch, one change request
\* is opened from the branch onto the default branch, and the result is a
\* success with the paths of all edits and the new change request.
C25_FreshRun ==
    FreshRunAllGood =>
        LET branches == SelectSeq(calls, IsCreateBranch)
            requests == SelectSeq(calls, IsPullRequest)
        IN /\ Len(branches) = 1
           /\ branches[1].sha = Some("base_sha")
           /\ Some(branches[1].target) = branch_name
           /\ Paths(WriteCalls) = Paths(changes)
           /\ \A k \in 1..Len(WriteCalls) :
                  WriteCalls[k].target = branches[1].target
           /\ Len(requests) = 1
           /\ requests[1].target = branches[1].target
           /\ requests[1].base = DefaultBranch
           /\ Res.success
           /\ ResultFiles = Paths(changes)
           /\ Res.pr_url = Some(PrNumbers.created)

C25_Witness ==
    /\ FreshRunAllGood
    /\ Len(changes) = 2
    /\ Len(SuccessfulWrites) = 2

\* The store before the command at position i of ops.
StoreBefore(i) == IF i = 1 THEN EmptyStore ELSE ops[i - 1].after

\* The entry of the user's most recent set not followed by a clear.
RECURSIVE LastWrite(_, _)
LastWrite(user, log) ==
    IF log = <<>> THEN None
    ELSE LET o == Last(log) IN
         IF o.user = user /\ o.op = "set" THEN o.value
         ELSE IF o.user = user /\ o.op = "clear" THEN None
         ELSE LastWrite(user, SubSeq(log, 1, Len(log) - 1))

\* C26: every command leaves the entries of the other users as they were,
\* and the entry a run reads for its user is the one of that user's most
\* recent set not followed by a clear, or nothing.
C26_StoreIsolationLastWriteWins ==
    \A i \in 1..Len(ops) :
        /\ \A other \in Users \ {ops[i].user} :
               ops[i].after[other] = StoreBefore(i)[other]
        /\ ops[i].op = "run" =>
               ops[i].value = LastWrite(ops[i].user, SubSeq(ops, 1, i - 1))

\* A user set an entry twice, another user's command came between, and the
\* run read the second entry.
C26_Witness ==
    /\ Len(ops) = 3
    /\ ops[1].op = "set" /\ ops[1].user = "u1"
    /\ ops[2].op = "set" /\ ops[2].user = "u2" /\ ops[2].value # ops[1].value
    /\ ops[3].op = "run" /\ ops[3].user = "u1" /\ ops[3].value = ops[1].value

\* C27: a run reads its user's entry as it is when the run starts and
\* leaves the whole store as it found it, whatever execute returned.
C27_RunLeavesStore ==
    \A i \in 1..Len(ops) :
        ops[i].op = "run" =>
            /\ ops[i].value = StoreBefore(i)[ops[i].user]
            /\ ops[i].after = StoreBefore(i)

\* A fresh run opened a change request, and the user's next run was a fresh
\* run again.
C27_Witness ==
    /\ Len(ops) >= 2
    /\ ops[1].op = "run" /\ ops[1].value = None
    /\ Get(ops[1].result).success /\ IsSome(Get(ops[1].result).pr_url)
    /\ ops[2].op = "run" /\ ops[2].user = ops[1].user /\ ops[2].value = None

\* C28: every write is preceded by a read of the same path on the same
\* branch, and carries a hash exactly when that read found the file.
C28_EveryEditIsProbed ==
    \A j \in 1..Len(calls) :
        IsWrite(calls[j]) =>
            /\ j > 1
            /\ calls[j - 1].op = "get_file_content"
            /\ calls[j - 1].path = calls[j].path
            /\ calls[j - 1].target = calls[j].target
            /\ calls[j - 1].ok <=> IsSome(calls[j].sha)

\* C29: the write of an edit with action update comes right after a read of
\* the same path on the working branch, which is not the default branch, and
\* carries the hash that read returned, or none when it found no file.
C29_UpdateReadsWorkingBranch ==
    \A j \in 1..Len(calls) :
        (IsWrite(calls[j]) /\ EditOfWrite(j).action = "update") =>
            /\ j > 1
            /\ calls[j - 1].op = "get_file_content"
            /\ calls[j - 1].returned
            /\ calls[j - 1].path = calls[j].path
            /\ Some(calls[j - 1].target) = branch_name
            /\ calls[j - 1].target # DefaultBranch
            /\ calls[j].target = calls[j - 1].target
            /\ calls[j].sha = IF calls[j - 1].ok THEN Some("blob") ELSE None

\* An update was written with the hash of the file read, and a later edit
\* of the same run was written without a read.
C29_Witness ==
    /\ Len(WriteCalls) = 2
    /\ changes[1].action = "update"
    /\ WriteCalls[1].sha = Some("blob")
    /\ WriteCalls[2].sha = None

\* C30: create_branch, create_pull_request and the model request are issued
\* at most once each; the writes are those of a prefix of the edit list, one
\* per edit and in order, and of the whole list once the loop is through.
C30_NoRetry ==
    /\ Len(SelectSeq(calls, IsCreateBranch)) <= 1
    /\ Len(SelectSeq(calls, IsPullRequest)) <= 1
    /\ Len(SelectSeq(calls, IsModelCall)) <= 1
    /\ Len(WriteCalls) <= Len(changes)
    /\ Paths(WriteCalls) = SubSeq(Paths(changes), 1, Len(WriteCalls))
    /\ (pc = "create_pr"
           \/ (Returned /\ (Res.success \/ Res.message = "No changes committed")))
          => Len(WriteCalls) = Len(changes)

\* A write failed with a stale-hash conflict, the next edit was written, and
\* the run succeeded on the second edit alone.
C30_Witness ==
    /\ Len(WriteCalls) = 2
    /\ WriteCalls[1].status = "409" /\ IsSome(WriteCalls[1].sha)
    /\ WriteCalls[2].ok
    /\ Returned /\ Res.success

\* ------------------------------------------------------------------------
\* Parsed actions, progress reports, exceptions, branches, scans, termination
\* ------------------------------------------------------------------------
\* C31: the edits parsed from the text of a completed stream all have action
\* create or update, and their paths are, in order, paths of the text's
\* entries.
C31_ParsedActionsAreValid ==
    StreamEnded =>
        LET parsed == ParseAiResponseWithMeta(full_content).changes IN
        /\ \A i \in 1..Len(parsed) : parsed[i].action \in {"create", "update"}
        /\ IsSubseq(Paths(parsed), FindPaths(full_content))

\* The checkpoint reported before the step a call belongs to.
CheckpointOf(c) ==
    CASE StepOf(c) = 1 -> 10
      [] StepOf(c) = 2 -> 20
      [] StepOf(c) = 3 -> 30
      [] StepOf(c) = 4 -> 40
      [] StepOf(c) = 5 -> 50
      [] StepOf(c) = 6 -> 80
      [] OTHER         -> 90

\* C32: the percentages reported are, in order, checkpoints of the list 10,
\* 20, 30, 40, 50, 70, 80, 90, 100, none twice; the checkpoint of a step has
\* been reported when a call of that step is issued; and a returned run that
\* reported 100 returned success.
C32_ProgressCheckpoints ==
    /\ IsSubseq(progress_log, <<10, 20, 30, 40, 50, 70, 80, 90, 100>>)
    /\ \A i \in 1..Len(calls) : InSeq(CheckpointOf(calls[i]), progress_log)
    /\ (Returned /\ InSeq(100, progress_log)) => Res.success

\* C36: a run that has ended has returned a result, and a result that is
\* not a success carries an error string.
C36_AlwaysAResult ==
    pc = "done" =>
        /\ Returned
        /\ ~Res.success => IsSome(Res.error)

\* The last on_progress call raised after a file was written, and execute
\* returned the failure result of its except branch.
C36_Witness ==
    /\ pc = "done"
    /\ Returned
    /\ Res.error = Some("callback exception")
    /\ InSeq(100, progress_log)

\* C37: every write names the working branch of the run, which is
\* existing_branch when supplied; without existing_branch it is the branch a
\* successful create_branch call of this run created, and neither that call
\* nor any write names the default branch.
C37_OneWorkingBranch ==
    \A j \in 1..Len(calls) :
        /\ IsWrite(calls[j]) =>
               /\ Some(calls[j].target) = branch_name
               /\ IsSome(args.existing_branch) =>
                      calls[j].target = Get(args.existing_branch)
               /\ ~IsSome(args.existing_branch) =>
                      /\ calls[j].target # DefaultBranch
                      /\ \E i \in 1..(j - 1) :
                             /\ IsCreateBranch(calls[i]) /\ calls[i].ok
                             /\ calls[i].target = calls[j].target
        /\ IsCreateBranch(calls[j]) => calls[j].target # DefaultBranch

\* A run on a fresh branch wrote a file and then ended in failure.
C37_Witness ==
    /\ ~IsSome(args.existing_branch)
    /\ SuccessfulWrites # <<>>
    /\ Returned /\ ~Res.success

\* C38: the paths a fragment's scan reports are paths of complete markers
\* of the text that fragment appended.
C38_ScanReadsOnlyNewText ==
    [][nfrag' = nfrag + 1 =>
          LET appended == Drop(full_content', Len(full_content))
              before == SelectSeq(events, IsWriting)
              after == SelectSeq(events', IsWriting)
          IN \A k \in (Len(before) + 1)..Len(after) :
                 InSeq(after[k].current_file, FindPaths(appended))]_vars

\* Of two paths of a text received in two fragments one was reported; the
\* marker of the other lay across the fragment boundary and the stream ended
\* without a report of it.
C38_Witness ==
    /\ StreamEnded
    /\ nfrag = 2
    /\ Len(files_detected) = 1
    /\ \E i \in 1..Len(FindPaths(full_content)) :
           ~InSeq(FindPaths(full_content)[i], files_detected)

\* C39: every run returns a result in the end.
C39_EventuallyReturns == <>(pc = "done" /\ Returned)

\* A run went through the commit loop, one write per edit, and returned.
C39_Witness ==
    /\ pc = "done" /\ Returned
    /\ Len(changes) = 2
    /\ Len(WriteCalls) = 2

\* ------------------------------------------------------------------------
\* Continuation mode: entering it, leaving it, and what it points at
\* ------------------------------------------------------------------------
\* C33: a /continue that finds no change request leaves the store as it
\* was; one that finds it stores that change request of the selected
\* repository for the user; and every run of a user whose most recent set
\* was not followed by a clear is started with existing_branch and
\* existing_pr_number equal to the pair of that set.
C33_ContinueStoresAndRunsUseIt ==
    \A i \in 1..Len(ops) :
        /\ ops[i].op = "continue_failed" => ops[i].after = StoreBefore(i)
        /\ ops[i].op = "set" =>
               /\ IsSome(ops[i].value)
               /\ Get(ops[i].value) \in PullRequestsOf(ops[i].repo)
               /\ ops[i].after[ops[i].user] = ops[i].value
        /\ ops[i].op = "run" =>
               LET e == LastWrite(ops[i].user, SubSeq(ops, 1, i - 1)) IN
               IsSome(e) =>
                   /\ Get(ops[i].result).existing_branch = Some(Get(e)[1])
                   /\ Get(ops[i].result).existing_pr_number = Some(Get(e)[2])

\* A user entered continuation mode, a later /continue of theirs found
\* nothing, and their next run was started with the stored pair.
C33_Witness ==
    /\ Len(ops) = 3
    /\ ops[1].op = "set"
    /\ ops[2].op = "continue_failed" /\ ops[2].user = ops[1].user
    /\ ops[3].op = "run" /\ ops[3].user = ops[1].user
    /\ Get(ops[3].result).existing_branch = Some(Get(ops[1].value)[1])
    /\ Get(ops[3].result).existing_pr_number = Some(Get(ops[1].value)[2])

\* C34: /stop, the "Stop Continuing" button and /new each leave the user
\* without a continuation entry, and a run of the user that follows one of
\* them is started without existing_branch and existing_pr_number.
C34_StopAndNewClear ==
    \A i \in 1..Len(ops) :
        /\ ops[i].op \in {"clear", "new"} => ops[i].after[ops[i].user] = None
        /\ (/\ i > 1
            /\ ops[i].op = "run"
            /\ ops[i - 1].op \in {"clear", "new"}
            /\ ops[i - 1].user = ops[i].user) =>
               /\ Get(ops[i].result).existing_branch = None
               /\ Get(ops[i].result).existing_pr_number = None

\* C35: the entry a run in continuation mode is started with is a change
\* request of the repository the user has selected, and one that has not
\* been merged.
C35_ContinuationEntryIsCurrent ==
    \A i \in 1..Len(ops) :
        (ops[i].op = "run" /\ IsSome(ops[i].value)) =>
            /\ Get(ops[i].value) \in PullRequestsOf(ops[i].repo)
            /\ Get(ops[i].value) \notin ops[i].merged

====
